---- MODULE Spec2Model ----
(***************************************************************************)
(* Model of tentswebgui_template.py: the geometry kernel                   *)
(* (WebGLScene.GetFacesAndNormals), the tent flattener                     *)
(* (WebGLScene.GetElements2D, WebGLScene.GetData), the payload encoder     *)
(* (encodeData) and the scene's Draw / Redraw handlers.                    *)
(*                                                                         *)
(* Numbers: coordinates and times are integers, on which cross products,   *)
(* dot products, signs, minima and maxima are exact.  A value the code     *)
(* divides or takes a root of is kept as an exact symbolic value (Half,    *)
(* HalfNorm, Normalise) instead of being evaluated.                        *)
(***************************************************************************)
EXTENDS Integers, Sequences, FiniteSets, TLC

VARIABLES
    element,      \* GetFacesAndNormals: the argument (a list of points)
    geomOut,      \* GetFacesAndNormals: what the call returned or raised
    array,        \* encodeData: the argument (a 2-d array of floats)
    encOut,       \* encodeData: the returned text
    tps,          \* what tps.DrawPitchedTentsGL() returns now: the tent records
    ticks,        \* the durations two successive time() readings can differ by
    pc,           \* "idle", or where the call in progress stands
    caller,       \* the handler in progress (when idle: the last one)
    i,            \* GetElements2D: the loop index
    gvertices, normals, faces, tentcenters, nrs, layers,
    center,       \* GetElements2D: the local `center`, <<>> while unbound
    setup_times, tent_times, face_times,
    d,            \* GetData: the dict being filled
    ret,          \* what the last finished handler got from GetData, or raised
    widget,       \* self.widget: 0 while the attribute is unset
    widgets,      \* the value of every widget created so far
    displayed,    \* the widgets handed to display()
    pre,          \* self.widget and its value when the handler in progress began
    last          \* the tent records, the result and the elapsed ticks of the last
                  \* GetData that returned

geomVars == <<element, geomOut>>
encVars == <<array, encOut>>
pureVars == <<element, geomOut, array, encOut>>
lists == <<gvertices, normals, faces, tentcenters, nrs, layers>>
timers == <<setup_times, tent_times, face_times>>
locals == <<i, lists, center, timers, d>>
sceneVars == <<widget, widgets, displayed>>
flatVars == <<tps, ticks, pc, caller, locals, ret, sceneVars, pre, last>>
vars == <<pureVars, flatVars>>

NotCalled == [kind |-> "none"]
Raised(e) == [kind |-> "raise", exc |-> e]

\* No scene, no call: the state of the flatten variables in the specifications
\* of the pure functions.
NoLocals ==
    /\ i = 0
    /\ gvertices = <<>> /\ normals = <<>> /\ faces = <<>>
    /\ tentcenters = <<>> /\ nrs = <<>> /\ layers = <<>>
    /\ center = <<>>
    /\ setup_times = <<>> /\ tent_times = <<>> /\ face_times = <<>>
    /\ d = NotCalled
NoScene ==
    /\ tps = <<>> /\ ticks = {0} /\ pc = "idle" /\ caller = "none"
    /\ NoLocals
    /\ ret = NotCalled
    /\ widget = 0 /\ widgets = <<>> /\ displayed = {}
    /\ pre = NotCalled /\ last = NotCalled

(***************************************************************************)
(* Vectors of three integers.                                              *)
(***************************************************************************)
Sub(a, b) == <<a[1] - b[1], a[2] - b[2], a[3] - b[3]>>
Dot(a, b) == a[1] * b[1] + a[2] * b[2] + a[3] * b[3]
Cross(a, b) ==
    <<a[2] * b[3] - a[3] * b[2], a[3] * b[1] - a[1] * b[3], a[1] * b[2] - a[2] * b[1]>>
Scale(s, a) == <<s * a[1], s * a[2], s * a[3]>>
Sign(x) == IF x > 0 THEN 1 ELSE IF x < 0 THEN -1 ELSE 0

(***************************************************************************)
(* GetFacesAndNormals.  Indices are 0-based as in the code; column c of    *)
(* pts is element[c + 1].                                                  *)
(***************************************************************************)
\* vecs = pts - np.roll(pts, 1, 1): column c minus its cyclic predecessor
\* among the n columns there are.
Vecs(elt, c) == Sub(elt[c + 1], elt[((c + Len(elt) - 1) % Len(elt)) + 1])

\* normal / np.linalg.norm(normal) * sign: the vector sign * normal divided
\* by sqrt(len2); 0/0 (a NaN vector) when len2 = 0.
Normalise(normal, sign) == [v |-> Scale(sign, normal), len2 |-> Dot(normal, normal)]

FaceOfNoFlip(sign, j, k, m) == <<j, k, m>>
FaceOf(sign, j, k, m) == IF sign > 0 THEN <<j, k, m>> ELSE <<j, m, k>>

\* One pass of the loop over i in range(4).
FaceAndNormal(elt, fi) ==
    LET j == (fi + 1) % 4
        k == (fi + 2) % 4
        m == (fi + 3) % 4
        normal == Cross(Vecs(elt, k), Vecs(elt, m))
        sign == 0 - Sign(Dot(Vecs(elt, fi), normal))
    IN  [face |-> FaceOf(sign, j, k, m), normal |-> Normalise(normal, sign)]

\* The faulty variant whose loop stops one face short.
GetFacesAndNormalsThree(elt) ==
    IF Len(elt) < 4
    THEN Raised("IndexError")
    ELSE [kind |-> "return",
          faces |-> [fi \in 1..3 |-> FaceAndNormal(elt, fi - 1).face],
          normals |-> [fi \in 1..3 |-> FaceAndNormal(elt, fi - 1).normal]]

\* vecs[:, 3] is read in the first pass: fewer than 4 columns is an IndexError.
GetFacesAndNormals(elt) ==
    IF Len(elt) < 4
    THEN Raised("IndexError")
    ELSE [kind |-> "return",
          faces |-> [fi \in 1..4 |-> FaceAndNormal(elt, fi - 1).face],
          normals |-> [fi \in 1..4 |-> FaceAndNormal(elt, fi - 1).normal]]

(***************************************************************************)
(* encodeData.  A finite float (a double) is [s, m, e], the number         *)
(* (-1)^s * m * 2^e; a float32 is its three bit fields [s, expf, mant].    *)
(***************************************************************************)
RECURSIVE Pow2(_)
Pow2(k) == IF k = 0 THEN 1 ELSE 2 * Pow2(k - 1)

RECURSIVE BitLength(_)
BitLength(m) == IF m = 0 THEN 0 ELSE 1 + BitLength(m \div 2)

\* m / 2^k rounded to the nearest integer, ties to even (the cast's rounding).
RoundShift(m, k) ==
    IF k <= 0 THEN m * Pow2(0 - k)
    ELSE IF k > BitLength(m) + 1 THEN 0
    ELSE LET q == m \div Pow2(k)
             r == m % Pow2(k)
             half == Pow2(k - 1)
         IN  IF r > half \/ (r = half /\ q % 2 = 1) THEN q + 1 ELSE q

MantBits == 23
ExpBias == 127
ExpMax == 255

\* np.array(..., dtype=np.float32) of one double: round to 24 significant
\* bits (to a multiple of 2^-149 in the subnormal range), infinity on overflow.
Float32Of(x) ==
    IF x.m = 0 THEN [s |-> x.s, expf |-> 0, mant |-> 0]
    ELSE LET b == BitLength(x.m)
             E == x.e + b - 1
         IN  IF E < 1 - ExpBias
             THEN LET sig == RoundShift(x.m, 0 - (x.e + ExpBias - 1 + MantBits))
                  IN  [s |-> x.s, expf |-> sig \div Pow2(MantBits), mant |-> sig % Pow2(MantBits)]
             ELSE LET sig == RoundShift(x.m, b - (MantBits + 1))
                      E2 == IF sig = Pow2(MantBits + 1) THEN E + 1 ELSE E
                      sig2 == IF sig = Pow2(MantBits + 1) THEN Pow2(MantBits) ELSE sig
                  IN  IF E2 + ExpBias >= ExpMax
                      THEN [s |-> x.s, expf |-> ExpMax, mant |-> 0]
                      ELSE [s |-> x.s, expf |-> E2 + ExpBias, mant |-> sig2 - Pow2(MantBits)]

\* The 4 bytes of a float32 in memory, big-endian (a faulty variant) and
\* little-endian (the buffer b64encode reads).
BytesOfBE(f) ==
    <<f.s * 128 + f.expf \div 2, (f.expf % 2) * 128 + f.mant \div 65536,
      (f.mant \div 256) % 256, f.mant % 256>>
BytesOf(f) ==
    <<f.mant % 256, (f.mant \div 256) % 256,
      (f.expf % 2) * 128 + f.mant \div 65536, f.s * 128 + f.expf \div 2>>

\* array.flatten(): the rows one after the other.
RECURSIVE Flatten(_)
Flatten(a) == IF a = <<>> THEN <<>> ELSE Head(a) \o Flatten(Tail(a))

RECURSIVE BufferOf(_)
BufferOf(values) ==
    IF values = <<>> THEN <<>> ELSE BytesOf(Head(values)) \o BufferOf(Tail(values))

B64Alphabet ==
    <<
    "A", "B", "C", "D", "E", "F", "G", "H", "I", "J", "K", "L", "M", "N", "O", "P",
    "Q", "R", "S", "T", "U", "V", "W", "X", "Y", "Z", "a", "b", "c", "d", "e", "f",
    "g", "h", "i", "j", "k", "l", "m", "n", "o", "p", "q", "r", "s", "t", "u", "v",
    "w", "x", "y", "z", "0", "1", "2", "3", "4", "5", "6", "7", "8", "9", "+", "/"
    >>

B64Char(n) == B64Alphabet[n + 1]

\* b64encode: 3 bytes to 4 characters, the last group padded with "=".
RECURSIVE B64Encode(_)
B64Encode(bytes) ==
    IF Len(bytes) = 0 THEN <<>>
    ELSE IF Len(bytes) = 1
    THEN <<B64Char(bytes[1] \div 4), B64Char((bytes[1] % 4) * 16), "=", "=">>
    ELSE IF Len(bytes) = 2
    THEN <<B64Char(bytes[1] \div 4), B64Char((bytes[1] % 4) * 16 + bytes[2] \div 16),
           B64Char((bytes[2] % 16) * 4), "=">>
    ELSE <<B64Char(bytes[1] \div 4), B64Char((bytes[1] % 4) * 16 + bytes[2] \div 16),
           B64Char((bytes[2] % 16) * 4 + bytes[3] \div 64), B64Char(bytes[3] % 64)>>
         \o B64Encode(SubSeq(bytes, 4, Len(bytes)))

encodeData(a) ==
    LET values == [n \in 1..Len(Flatten(a)) |-> Float32Of(Flatten(a)[n])]
    IN  B64Encode(BufferOf(values))

(***************************************************************************)
(* Specification of the geometry kernel on its own: every list of 4 points *)
(* of a small integer cube.                                                *)
(***************************************************************************)
MaxCoord == 1
Cube == {<<x, y, z>> : x \in 0..MaxCoord, y \in 0..MaxCoord, z \in 0..MaxCoord}

InitGeom ==
    /\ element \in [1..4 -> Cube]
    /\ geomOut = NotCalled
    /\ array = <<>>
    /\ encOut = NotCalled
    /\ NoScene

CallFacesAndNormals ==
    /\ geomOut = NotCalled
    /\ geomOut' = GetFacesAndNormals(element)
    /\ UNCHANGED <<element, encVars, flatVars>>

NextGeom == CallFacesAndNormals
SpecGeom == InitGeom /\ [][NextGeom]_vars

\* Six times the signed volume of the tetrahedron.
Volume6(elt) ==
    Dot(Sub(elt[2], elt[1]), Cross(Sub(elt[3], elt[1]), Sub(elt[4], elt[1])))

\* u and v are non-zero and point the same way.
SameDirection(u, v) == Cross(u, v) = <<0, 0, 0>> /\ Dot(u, v) > 0

\* The right-hand-rule vector of the triangle (a, b, c) of 0-based indices.
Winding(elt, f) ==
    Cross(Sub(elt[f[2] + 1], elt[f[1] + 1]), Sub(elt[f[3] + 1], elt[f[1] + 1]))

\* C3: for a non-degenerate tetrahedron (either orientation) the kernel
\* returns 4 faces; face i is a triple of the three indices other than i,
\* wound so that its right-hand-rule vector points away from vertex i, and
\* normal i has the direction of that vector.
C3_OutwardFaces ==
    (geomOut.kind # "none" /\ Volume6(element) # 0) =>
        /\ geomOut.kind = "return"
        /\ Len(geomOut.faces) = 4
        /\ Len(geomOut.normals) = 4
        /\ \A fi \in 0..3 :
            LET f == geomOut.faces[fi + 1]
                w == Winding(element, f)
                nrm == geomOut.normals[fi + 1]
            IN  /\ Len(f) = 3
                /\ {f[1], f[2], f[3]} = (0..3) \ {fi}
                /\ Dot(w, Sub(element[fi + 1], element[f[1] + 1])) < 0
                /\ nrm.len2 > 0
                /\ SameDirection(nrm.v, w)

\* A tetrahedron of positive volume: face 0 keeps the rotation (1, 2, 3),
\* face 1 has its last two indices swapped.
C3_Witness ==
    /\ geomOut.kind = "return"
    /\ Volume6(element) > 0
    /\ geomOut.faces[1] = <<1, 2, 3>>
    /\ geomOut.faces[2] = <<2, 0, 3>>

(***************************************************************************)
(* Specification of the encoder on its own: every array of at most MaxLen  *)
(* floats, of every shape, over floats that round exactly, round to even,  *)
(* overflow to infinity, are subnormal, or underflow to zero.              *)
(***************************************************************************)
MaxLen == 3
Floats ==
    {[s |-> 0, m |-> 0, e |-> 0],             \* 0.0
     [s |-> 1, m |-> 1, e |-> 0],             \* -1.0
     [s |-> 0, m |-> 3, e |-> -1],            \* 1.5
     [s |-> 0, m |-> 16777217, e |-> 0],      \* 2^24 + 1: a tie, rounds to 2^24
     [s |-> 1, m |-> 33554431, e |-> -3],     \* 25 one bits: rounds up a binade
     [s |-> 0, m |-> 1, e |-> 128],           \* 2^128: finite double, float32 inf
     [s |-> 0, m |-> 3, e |-> -150],          \* 1.5 * 2^-149: subnormal tie
     [s |-> 1, m |-> 1, e |-> -150]}          \* -2^-150: underflows to -0.0
Shapes == {sh \in (0..MaxLen) \X (1..MaxLen) : sh[1] * sh[2] <= MaxLen}
Arrays == UNION {[1..sh[1] -> [1..sh[2] -> Floats]] : sh \in Shapes}

InitEnc ==
    /\ array \in Arrays
    /\ encOut = NotCalled
    /\ element = <<>>
    /\ geomOut = NotCalled
    /\ NoScene

CallEncodeData ==
    /\ encOut = NotCalled
    /\ encOut' = [kind |-> "return", text |-> encodeData(array)]
    /\ UNCHANGED <<array, geomVars, flatVars>>

NextEnc == CallEncodeData
SpecEnc == InitEnc /\ [][NextEnc]_vars

\* The reader's side: base64 text to bytes, bytes to little-endian float32s.
B64Index(ch) == CHOOSE n \in 0..63 : B64Alphabet[n + 1] = ch

RECURSIVE B64Decode(_)
B64Decode(text) ==
    IF Len(text) < 4 THEN <<>>
    ELSE LET a == B64Index(text[1])
             b == B64Index(text[2])
         IN  IF text[3] = "=" THEN <<a * 4 + b \div 16>>
             ELSE LET c == B64Index(text[3])
                  IN  IF text[4] = "="
                      THEN <<a * 4 + b \div 16, (b % 16) * 16 + c \div 4>>
                      ELSE <<a * 4 + b \div 16, (b % 16) * 16 + c \div 4,
                             (c % 4) * 64 + B64Index(text[4])>>
                           \o B64Decode(SubSeq(text, 5, Len(text)))

FloatLE(b) ==
    [s |-> b[4] \div 128,
     expf |-> (b[4] % 128) * 2 + b[3] \div 128,
     mant |-> (b[3] % 128) * 65536 + b[2] * 256 + b[1]]

RECURSIVE FloatsLE(_)
FloatsLE(bytes) ==
    IF Len(bytes) < 4 THEN <<>>
    ELSE <<FloatLE(SubSeq(bytes, 1, 4))>> \o FloatsLE(SubSeq(bytes, 5, Len(bytes)))

\* C7: decoding the returned text (base64, then little-endian float32)
\* gives the array flattened and rounded to float32, element by element.
C7_RoundTrip ==
    encOut.kind = "return" =>
        LET bytes == B64Decode(encOut.text)
            flat == Flatten(array)
        IN  /\ Len(encOut.text) % 4 = 0
            /\ Len(bytes) = 4 * Len(flat)
            /\ FloatsLE(bytes) = [n \in 1..Len(flat) |-> Float32Of(flat[n])]

\* A 2-element array (padded text) holding a value that rounding changes and
\* one that overflows.
C7_Witness ==
    /\ encOut.kind = "return"
    /\ Len(Flatten(array)) = 2
    /\ Flatten(array)[1] = [s |-> 0, m |-> 16777217, e |-> 0]
    /\ Flatten(array)[2] = [s |-> 0, m |-> 1, e |-> 128]
    /\ encOut.text[Len(encOut.text)] = "="

(***************************************************************************)
(* The mesh and the tent source (the collaborators of the flattener).      *)
(* A 2-d mesh of 4 vertices: two triangles and one quadrilateral.          *)
(***************************************************************************)
MeshPoint(v) == <<<<0, 0>>, <<2, 0>>, <<0, 2>>, <<2, 2>>>>[v + 1]
MeshVertices(elnr) == <<<<0, 1, 2>>, <<1, 3, 2>>, <<0, 1, 3, 2>>>>[elnr + 1]

\* One row of `data` (nr, layer, vnr, elnr) and one row of `times` (three
\* bottom times and the top time).  A tent is pitched at its central vertex:
\* it has that vertex's number, and vertices 0 and 3, which share no
\* triangle, are pitched in layer 0, the other two in layer 1.
TentLayer(vnr) == IF vnr \in {0, 3} THEN 0 ELSE 1
TimeRows == {<<0, 0, 0, 2>>, <<0, 1, 2, 0>>}
Records ==
    {[data |-> <<vnr, TentLayer(vnr), vnr, elnr>>, times |-> row] :
        vnr \in 0..3, elnr \in 0..2, row \in TimeRows}

\* The counts DrawPitchedTentsGL returns with the records.
NTents(recs) == Cardinality({recs[r].data[1] : r \in 1..Len(recs)})
NLayers(recs) == Cardinality({recs[r].data[2] : r \in 1..Len(recs)})

(***************************************************************************)
(* GetElements2D: one pass of the loop over the records.                   *)
(***************************************************************************)
\* tbots = times[i][:3], and the faulty variant that forgets the slice.
TbotsUnsliced(row) == row
Tbots(row) == SubSeq(row, 1, 3)
Ttop(row) == row[4]

\* vpt_top = vpt[:]; vpt_top[2] = ttop, and the faulty variant that forgets the time.
VptTopUnset(vpt, ttop) == vpt
VptTop(vpt, ttop) == <<vpt[1], vpt[2], ttop>>

\* The loop over the element's vertices from local index j on: tbots[j] must
\* exist; the central vertex is followed by its top point and binds center.
RECURSIVE Walk(_, _, _, _, _)
Walk(vs, j, rec, vertices, c) ==
    IF j = Len(vs) THEN [kind |-> "ok", vertices |-> vertices, center |-> c]
    ELSE IF j >= Len(Tbots(rec.times)) THEN Raised("IndexError")
    ELSE LET v == vs[j + 1]
             vpt == MeshPoint(v) \o <<Tbots(rec.times)[j + 1]>>
         IN  IF v = rec.data[3]
             THEN Walk(vs, j + 1, rec,
                       vertices \o <<vpt, VptTop(vpt, Ttop(rec.times))>>, <<j>>)
             ELSE Walk(vs, j + 1, rec, Append(vertices, vpt), c)

\* Lines 174-197 for one record, given the value `center` has on entry:
\* the element's points, its tent center, its faces and normals, or the
\* exception that ends the call.
Pass(rec, c) ==
    LET w == Walk(MeshVertices(rec.data[4]), 0, rec, <<>>, c)
    IN  IF w.kind = "raise" THEN w
        ELSE IF w.center = <<>> THEN Raised("UnboundLocalError")
        ELSE LET fn == GetFacesAndNormals(w.vertices)
             IN  IF fn.kind = "raise" THEN fn
                 ELSE [kind |-> "ok", vertices |-> w.vertices, center |-> w.center,
                       fcs |-> fn.faces, nrmls |-> fn.normals]

\* faces += fcs, and the faulty variant that offsets the indices by the number of
\* vertices emitted so far.
ExtendFacesOffset(fs, fcs, emitted) ==
    fs \o [n \in 1..Len(fcs) |-> [k \in 1..3 |-> fcs[n][k] + emitted]]
ExtendFaces(fs, fcs, emitted) == fs \o fcs

\* The frame of GetElements2D / GetData is gone.
ClearLocals ==
    /\ i' = 0
    /\ gvertices' = <<>> /\ normals' = <<>> /\ faces' = <<>>
    /\ tentcenters' = <<>> /\ nrs' = <<>> /\ layers' = <<>>
    /\ center' = <<>>
    /\ setup_times' = <<>> /\ tent_times' = <<>> /\ face_times' = <<>>
    /\ d' = NotCalled

\* GetData up to the loop of GetElements2D (lines 116-117, 157-171).
EnterGetData ==
    /\ i' = 0
    /\ gvertices' = <<>> /\ normals' = <<>> /\ faces' = <<>>
    /\ tentcenters' = <<>> /\ nrs' = <<>> /\ layers' = <<>>
    /\ center' = <<>>
    /\ setup_times' = <<>> /\ tent_times' = <<>> /\ face_times' = <<>>
    /\ d' = [ntents |-> NTents(tps), nlayers |-> NLayers(tps)]
    /\ pc' = "loop"

\* One pass that completes: every list grows.
LoopStep ==
    /\ pc = "loop"
    /\ i < Len(tps)
    /\ LET rec == tps[i + 1]
           p == Pass(rec, center)
       IN  /\ p.kind = "ok"
           /\ nrs' = Append(nrs, rec.data[1])
           /\ layers' = Append(layers, rec.data[2])
           /\ center' = p.center
           /\ tentcenters' = Append(tentcenters, p.center[1])
           /\ faces' = ExtendFaces(faces, p.fcs, Len(gvertices))
           /\ gvertices' = gvertices \o p.vertices
           /\ normals' = normals \o p.nrmls
    /\ \E t1 \in ticks, t2 \in ticks, t3 \in ticks :
           /\ setup_times' = Append(setup_times, t1)
           /\ tent_times' = Append(tent_times, t2)
           /\ face_times' = Append(face_times, t3)
    /\ i' = i + 1
    /\ UNCHANGED <<pureVars, tps, ticks, pc, caller, d, ret, sceneVars, pre, last>>

\* One pass that raises: the exception leaves GetElements2D, GetData and
\* the handler.
LoopRaise ==
    /\ pc = "loop"
    /\ i < Len(tps)
    /\ Pass(tps[i + 1], center).kind = "raise"
    /\ ret' = Pass(tps[i + 1], center)
    /\ pc' = "idle"
    /\ ClearLocals
    /\ UNCHANGED <<pureVars, tps, ticks, caller, sceneVars, pre, last>>

(***************************************************************************)
(* GetElements2D's return and the rest of GetData.                         *)
(***************************************************************************)
\* Line 206, and the faulty variant that returns a list of timings for the layers.
GetElements2DResultLeak == <<gvertices, normals, faces, tentcenters, nrs, face_times>>
GetElements2DResult == <<gvertices, normals, faces, tentcenters, nrs, layers>>

\* The loop is over: the timings are printed and the six lists returned.
GetElements2DReturn ==
    /\ pc = "loop"
    /\ i = Len(tps)
    /\ pc' = "post"
    /\ UNCHANGED <<pureVars, tps, ticks, caller, locals, ret, sceneVars, pre, last>>

\* vertices.max(axis=0) and vertices.min(axis=0), coordinate k.
RECURSIVE ColMax(_, _)
ColMax(vs, k) ==
    IF Len(vs) = 1 THEN vs[1][k]
    ELSE LET rest == ColMax(Tail(vs), k)
         IN  IF vs[1][k] > rest THEN vs[1][k] ELSE rest
RECURSIVE ColMin(_, _)
ColMin(vs, k) ==
    IF Len(vs) = 1 THEN vs[1][k]
    ELSE LET rest == ColMin(Tail(vs), k)
         IN  IF vs[1][k] < rest THEN vs[1][k] ELSE rest

\* x / 2, and the faulty variant that forgets the division.
Whole(x) == [num |-> x, den |-> 1]
Half(x) == [num |-> x, den |-> 2]
\* np.linalg.norm(v) / 2: the root of v.v over 2.
HalfNorm(v) == [root |-> Dot(v, v), den |-> 2]

\* An integer coordinate as a double.
FloatOfInt(n) == IF n < 0 THEN [s |-> 1, m |-> 0 - n, e |-> 0] ELSE [s |-> 0, m |-> n, e |-> 0]

\* encodeData of the normals: their components v / sqrt(len2) are
\* irrational in general, so the text is kept as the array it encodes.
encodeNormals(nrmls) == [float32_base64_of |-> nrmls]

\* Lines 118-136 on the lists GetElements2D returned (at least one vertex).
GetDataDict(d0, l) ==
    LET vertices == l[1]
        vmax == [k \in 1..3 |-> ColMax(vertices, k)]
        vmin == [k \in 1..3 |-> ColMin(vertices, k)]
    IN  [ntents |-> d0.ntents,
         nlayers |-> d0.nlayers,
         ngsolve_version |-> "ngs.__version__",
         tent_el_vertices |->
             encodeData([n \in 1..Len(vertices) |->
                            [k \in 1..3 |-> FloatOfInt(vertices[n][k])]]),
         face_normals |-> encodeNormals(l[2]),
         faces |-> l[3],
         tent_centers |-> l[4],
         tent_nrs |-> l[5],
         tent_layers |-> l[6],
         slab_center |-> [k \in 1..3 |-> Half(vmin[k] + vmax[k])],
         slab_radius |-> HalfNorm(Sub(vmax, vmin))]

GetDataFinish ==
    /\ pc = "post"
    /\ GetElements2DResult[1] # <<>>
    /\ d' = GetDataDict(d, GetElements2DResult)
    /\ pc' = "ret"
    /\ UNCHANGED <<pureVars, tps, ticks, caller, i, lists, center, timers, ret,
                   sceneVars, pre, last>>

\* No vertex at all: max() of an empty array is a ValueError.
GetDataRaise ==
    /\ pc = "post"
    /\ GetElements2DResult[1] = <<>>
    /\ ret' = Raised("ValueError")
    /\ pc' = "idle"
    /\ ClearLocals
    /\ UNCHANGED <<pureVars, tps, ticks, caller, sceneVars, pre, last>>

(***************************************************************************)
(* The handlers: GenerateHTML, Draw, Redraw.                               *)
(***************************************************************************)
DefaultValue == [ngstents_version |-> "0.0.0"]
Snapshot ==
    [kind |-> "pre", widget |-> widget,
     value |-> IF widget = 0 THEN NotCalled ELSE widgets[widget]]

\* The module's Draw(tps, filename) outside IPython: a new scene and its
\* first GenerateHTML.
DrawToFile ==
    /\ pc = "idle"
    /\ caller = "none"
    /\ caller' = "GenerateHTML"
    /\ pre' = Snapshot
    /\ EnterGetData
    /\ UNCHANGED <<pureVars, tps, ticks, ret, sceneVars, last>>

\* GenerateHTML on a scene that exists.
GenerateHTML ==
    /\ pc = "idle"
    /\ caller # "none"
    /\ caller' = "GenerateHTML"
    /\ pre' = Snapshot
    /\ EnterGetData
    /\ UNCHANGED <<pureVars, tps, ticks, ret, sceneVars, last>>

MaxDraws == 2

\* Draw, lines 101-103: a new widget becomes self.widget, then GetData.
Draw ==
    /\ pc = "idle"
    /\ Len(widgets) < MaxDraws
    /\ caller' = "Draw"
    /\ pre' = Snapshot
    /\ widgets' = Append(widgets, DefaultValue)
    /\ widget' = Len(widgets) + 1
    /\ EnterGetData
    /\ UNCHANGED <<pureVars, tps, ticks, ret, displayed, last>>

\* The keyword parameters of GetData(self).
GetDataKeywords == {}

\* Redraw, line 109: GetData(set_minmax=False); a keyword GetData does not
\* have is a TypeError before GetData runs.
Redraw ==
    /\ pc = "idle"
    /\ caller' = "Redraw"
    /\ pre' = Snapshot
    /\ IF "set_minmax" \in GetDataKeywords
       THEN EnterGetData /\ UNCHANGED ret
       ELSE /\ ret' = Raised("TypeError")
            /\ UNCHANGED <<pc, locals>>
    /\ UNCHANGED <<pureVars, tps, ticks, sceneVars, last>>

\* The ticks the timed sections of the run took in all.
RECURSIVE Sum(_)
Sum(q) == IF q = <<>> THEN 0 ELSE Head(q) + Sum(Tail(q))
Elapsed == Sum(setup_times) + Sum(tent_times) + Sum(face_times)

\* GetData returns d to the handler: GenerateHTML renders it, Draw and
\* Redraw set it as the widget's value, Draw displays the widget.
HandOff ==
    /\ pc = "ret"
    /\ ret' = [kind |-> "return", d |-> d]
    /\ last' = [kind |-> "return", src |-> tps, d |-> d, elapsed |-> Elapsed]
    /\ IF caller = "GenerateHTML"
       THEN UNCHANGED sceneVars
       ELSE /\ widgets' = [widgets EXCEPT ![widget] = d]
            /\ displayed' = IF caller = "Draw" THEN displayed \cup {widget} ELSE displayed
            /\ UNCHANGED widget
    /\ pc' = "idle"
    /\ ClearLocals
    /\ UNCHANGED <<pureVars, tps, ticks, caller, pre>>

(***************************************************************************)
(* Spec: one flattening (Draw to a file) of every sequence of at most      *)
(* MaxRecords records, with a clock that stands still.                     *)
(***************************************************************************)
MaxRecords == 2
SeqsOf(S) == UNION {[1..n -> S] : n \in 0..MaxRecords}

InitIdle ==
    /\ element = <<>> /\ geomOut = NotCalled
    /\ array = <<>> /\ encOut = NotCalled
    /\ pc = "idle" /\ caller = "none"
    /\ NoLocals
    /\ ret = NotCalled
    /\ widget = 0 /\ widgets = <<>> /\ displayed = {}
    /\ pre = NotCalled /\ last = NotCalled

Init ==
    /\ InitIdle
    /\ tps \in SeqsOf(Records)
    /\ ticks = {0}

Next ==
    \/ DrawToFile
    \/ LoopStep
    \/ LoopRaise
    \/ GetElements2DReturn
    \/ GetDataFinish
    \/ GetDataRaise
    \/ HandOff

Spec == Init /\ [][Next]_vars

\* The points of the r-th record in the global list, 4 to a record.
PointsOf(r) == SubSeq(gvertices, 4 * (r - 1) + 1, 4 * r)
Returned == pc \in {"post", "ret"}

\* C1 as stated: N records give 5 * N vertices and 4 * N faces.
C1_FivePerRecord ==
    Returned => Len(gvertices) = 5 * Len(tps) /\ Len(faces) = 4 * Len(tps)

\* C1 amended: N records give 4 * N vertices and 4 * N faces (and normals),
\* each record 3 bottom points and the top duplicate of its central vertex.
C1_FourPerRecord ==
    Returned =>
        /\ Len(gvertices) = 4 * Len(tps)
        /\ Len(faces) = 4 * Len(tps)
        /\ Len(normals) = 4 * Len(tps)
        /\ \A r \in 1..Len(tps) :
            LET c == tentcenters[r]
                bottoms == {n \in 1..4 : n # c + 2}
            IN  /\ Cardinality(bottoms) = 3
                /\ \A n \in bottoms :
                       PointsOf(r)[n][3] \in {tps[r].times[k] : k \in 1..3}
                /\ PointsOf(r)[c + 2][1] = PointsOf(r)[c + 1][1]
                /\ PointsOf(r)[c + 2][2] = PointsOf(r)[c + 1][2]

C1_Witness == pc = "post" /\ Len(tps) = 2 /\ Len(gvertices) = 8

\* C2 as stated: the faces a pass appends hold indices offset by the number
\* of vertices emitted before the pass.
C2_FacesOffset ==
    [][(pc = "loop" /\ i' = i + 1) =>
          \A n \in (Len(faces) + 1)..Len(faces') : \A k \in 1..3 :
              faces'[n][k] \in Len(gvertices)..(Len(gvertices') - 1)]_vars

\* C2 amended: the faces a pass appends are not offset: every index is local
\* to the element, in [0, number of points the pass emitted).
C2_FacesLocal ==
    [][(pc = "loop" /\ i' = i + 1) =>
          /\ Len(faces') = Len(faces) + 4
          /\ \A n \in (Len(faces) + 1)..Len(faces') : \A k \in 1..3 :
                 faces'[n][k] \in 0..(Len(gvertices') - Len(gvertices) - 1)]_vars

C2_Witness == pc = "loop" /\ i = 2 /\ Len(faces) = 8 /\ Len(gvertices) = 8

\* C4: for a record whose central vertex is at local position c of its
\* element, the tent center is c, the points hold the central vertex's bottom
\* point at c and its top point (same x, y; z the top time) at c + 1, and
\* every other vertex once, in mesh order, at its own bottom time.
C4_CentralSplit ==
    Returned =>
        \A r \in 1..Len(tps) :
            LET rec == tps[r]
                vs == MeshVertices(rec.data[4])
            IN  \A c \in 0..(Len(vs) - 1) :
                    vs[c + 1] = rec.data[3] =>
                        /\ tentcenters[r] = c
                        /\ PointsOf(r)[c + 1] = MeshPoint(vs[c + 1]) \o <<rec.times[c + 1]>>
                        /\ PointsOf(r)[c + 2] = MeshPoint(vs[c + 1]) \o <<rec.times[4]>>
                        /\ \A j \in 0..(Len(vs) - 1) :
                               j # c =>
                                   PointsOf(r)[(IF j < c THEN j ELSE j + 1) + 1]
                                       = MeshPoint(vs[j + 1]) \o <<rec.times[j + 1]>>
                        /\ Len(PointsOf(r)) = Len(vs) + 1

C4_Witness ==
    /\ pc = "post"
    /\ Len(tps) = 2
    /\ tps[2].times = <<0, 1, 2, 0>>
    /\ tentcenters = <<0, 1>>

\* The least and the greatest k-th coordinate of the emitted vertices.
Least(k) ==
    CHOOSE x \in {gvertices[n][k] : n \in 1..Len(gvertices)} :
        \A n \in 1..Len(gvertices) : x <= gvertices[n][k]
Greatest(k) ==
    CHOOSE x \in {gvertices[n][k] : n \in 1..Len(gvertices)} :
        \A n \in 1..Len(gvertices) : x >= gvertices[n][k]

\* C8: slab_center is (min + max) / 2 in every coordinate and 4 times the
\* square of slab_radius is the squared distance of the min and max corners.
C8_BoundingSphere ==
    pc = "ret" =>
        /\ \A k \in 1..3 :
               d.slab_center[k].num * 2 = (Least(k) + Greatest(k)) * d.slab_center[k].den
        /\ 4 * d.slab_radius.root
               = (d.slab_radius.den * d.slab_radius.den)
                   * ((Greatest(1) - Least(1)) * (Greatest(1) - Least(1))
                      + (Greatest(2) - Least(2)) * (Greatest(2) - Least(2))
                      + (Greatest(3) - Least(3)) * (Greatest(3) - Least(3)))

\* The claim's example: center (1, 1, 1) and radius^2 = 3.
C8_Witness ==
    /\ pc = "ret"
    /\ {gvertices[n] : n \in 1..Len(gvertices)}
           = {<<0, 0, 0>>, <<2, 0, 0>>, <<0, 2, 0>>, <<0, 0, 2>>}
    /\ \A k \in 1..3 : d.slab_center[k].num = 1 * d.slab_center[k].den
    /\ d.slab_radius.root = 3 * d.slab_radius.den * d.slab_radius.den

\* A record is malformed when its central vertex is none of its element's
\* vertices, or its element has a vertex with no bottom time at its position.
NoCentral(rec) ==
    \A j \in 1..Len(MeshVertices(rec.data[4])) : MeshVertices(rec.data[4])[j] # rec.data[3]
Malformed(rec) == NoCentral(rec) \/ Len(MeshVertices(rec.data[4])) > 3

\* C10: with a malformed record anywhere in the input GetElements2D never
\* returns; the call ends with an exception and its lists are gone.
C10_MalformedAborts ==
    (\E r \in 1..Len(tps) : Malformed(tps[r])) =>
        /\ ~Returned
        /\ (pc = "idle" /\ caller # "none") => (ret.kind = "raise" /\ NoLocals)

\* A later record without a central vertex, after a record that bound center.
C10_Witness ==
    /\ pc = "idle"
    /\ ret = Raised("IndexError")
    /\ Len(tps) = 2
    /\ ~Malformed(tps[1])
    /\ NoCentral(tps[2])
    /\ Len(MeshVertices(tps[2].data[4])) = 3

(***************************************************************************)
(* SpecClock: GenerateHTML again and again on the same records, every      *)
(* timed section taking 0 or 1 tick.                                       *)
(***************************************************************************)
ClockRecords ==
    {rec \in Records : /\ rec.data[3] \in {0, 1}
                       /\ rec.data[4] = 1
                       /\ rec.times = <<0, 1, 2, 0>>}

InitClock ==
    /\ InitIdle
    /\ tps \in SeqsOf(ClockRecords)
    /\ ticks = {0, 1}

NextClock ==
    \/ DrawToFile
    \/ GenerateHTML
    \/ LoopStep
    \/ LoopRaise
    \/ GetElements2DReturn
    \/ GetDataFinish
    \/ GetDataRaise
    \/ HandOff

SpecClock == InitClock /\ [][NextClock]_vars

\* C6: a GetData on the records of the last GetData that returned builds the
\* same d, whatever the clock read in either run.
C6_ClockIndependent ==
    [][(pc = "post" /\ pc' = "ret" /\ last.kind = "return" /\ last.src = tps)
          => d' = last.d]_vars

\* Two runs on the same records whose timings differ.
C6_Witness ==
    /\ pc = "ret"
    /\ last.kind = "return"
    /\ last.src = tps
    /\ last.elapsed # Elapsed
    /\ Len(tps) = 2
    /\ d = last.d

(***************************************************************************)
(* SpecScene: a scene in a notebook; Draw and Redraw in any order while    *)
(* the tent source moves on between calls.                                 *)
(***************************************************************************)
SceneRecords ==
    {rec \in Records : /\ rec.data[3] \in {0, 3}
                       /\ rec.data[4] = 0
                       /\ rec.times = <<0, 0, 0, 2>>}

InitScene ==
    /\ InitIdle
    /\ tps \in SeqsOf(SceneRecords)
    /\ ticks = {0}

\* The tent source is pitched anew between two calls.
Advance ==
    /\ pc = "idle"
    /\ tps' \in SeqsOf(SceneRecords) \ {tps}
    /\ UNCHANGED <<pureVars, ticks, pc, caller, locals, ret, sceneVars, pre, last>>

NextScene ==
    \/ Draw
    \/ Redraw
    \/ Advance
    \/ LoopStep
    \/ LoopRaise
    \/ GetElements2DReturn
    \/ GetDataFinish
    \/ GetDataRaise
    \/ HandOff

SpecScene == InitScene /\ [][NextScene]_vars

Flattenable(recs) == recs # <<>> /\ \A r \in 1..Len(recs) : ~Malformed(recs[r])

\* C5: after a successful Draw, a Redraw (on records that flatten) ends with
\* the data GetData computed from the tent source as the widget's value.
C5_RedrawHandsOver ==
    (/\ pc = "idle"
     /\ caller = "Redraw"
     /\ pre.widget \in displayed
     /\ Flattenable(tps)) =>
        /\ ret.kind = "return"
        /\ last.src = tps
        /\ widgets[widget] = ret.d

\* C9: a Draw or Redraw that fails on a drawn scene leaves self.widget and
\* its value as they were.
C9_FailureLeavesScene ==
    (/\ pc = "idle"
     /\ caller \in {"Draw", "Redraw"}
     /\ ret.kind = "raise"
     /\ pre.widget \in displayed) =>
        /\ widget = pre.widget
        /\ widgets[widget] = pre.value
====
